---- MODULE Spec2Model ----
(***************************************************************************)
(* Transcript acquisition of BurstSoftware/YoutubeVideoContentExtraction.  *)
(*                                                                         *)
(* The command-line program src/app5.py is modelled step by step; the      *)
(* identifier extractors and caption retrievers of the other variants      *)
(* (src/app4.py, src/YoutubeVideoTranscriptExtraction.py and               *)
(* src/youtube-transcript-summary-tool-v1.py) are modelled as operators,   *)
(* and the session of the transcript analyzer of the latter file is        *)
(* modelled one script run at a time.                                      *)
(*                                                                         *)
(* A Python str is a sequence of one-character strings.  An Optional[T]    *)
(* is a sequence of length 0 (None) or 1 (the value).                      *)
(***************************************************************************)
EXTENDS Integers, Sequences, FiniteSets, TLC

VARIABLES
    video_url,        \* the reference typed by the user
    choice,           \* the menu choice typed by the user
    pc,               \* position in the running program
    calls,            \* requests issued so far, in order (history)
    heard,            \* answers of the external services, in order (history)
    fs,               \* files that exist on disk
    result,           \* <<transcript, error>> last returned, both Optional
    printed,          \* what the program displayed last
    audio,            \* duration in ms of the downloaded audio asset
    chunks,           \* the chunk list of transcribe_audio
    i,                \* index of the chunk being processed
    full_transcript,  \* texts collected by transcribe_audio
    variant,          \* the source file whose function ran
    video_id,         \* Optional identifier returned by an extractor
    session_state,    \* st.session_state of the transcript analyzer
    page,             \* what the last script run of the analyzer rendered
    analysed          \* Optional inputs of the analysis now stored (history)

vars == <<video_url, choice, pc, calls, heard, fs, result, printed, audio,
          chunks, i, full_transcript, variant, video_id,
          session_state, page, analysed>>

\* the variables of the transcript analyzer
ui == <<session_state, page, analysed>>

-----------------------------------------------------------------------------
(* Python values *)

None == <<>>

Some(x) == <<x>>

IsNone(o) == o = <<>>

\* Python truthiness of an Optional[str]: None and "" are falsy
Truthy(o) == o # <<>> /\ o[1] # <<>>

Lower == {"a","b","c","d","e","f","g","h","i","j","k","l","m",
          "n","o","p","q","r","s","t","u","v","w","x","y","z"}

Upper == {"A","B","C","D","E","F","G","H","I","J","K","L","M",
          "N","O","P","Q","R","S","T","U","V","W","X","Y","Z"}

Digit == {"0","1","2","3","4","5","6","7","8","9"}

\* every character that occurs in the modelled inputs
Alphabet == Lower \cup Upper \cup Digit \cup
            {"-", "_", ".", "/", "?", "&", "=", ":", "#", " "}

Min(S) == CHOOSE x \in S : \A y \in S : x <= y

\* s[from:] in Python, from counted from 0
Tail0(s, from) == SubSeq(s, from + 1, Len(s))

\* s.startswith(p) at the 1-based position k
StartsWithAt(s, k, p) ==
    /\ k + Len(p) - 1 <= Len(s)
    /\ SubSeq(s, k, k + Len(p) - 1) = p

StartsWith(s, p) == StartsWithAt(s, 1, p)

\* positions of the character c in s
Positions(s, cs) == {k \in 1..Len(s) : s[k] \in cs}

\* s.split(c) for a one-character separator
RECURSIVE Split(_, _)
Split(s, c) ==
    IF Positions(s, {c}) = {} THEN <<s>>
    ELSE LET k == Min(Positions(s, {c}))
         IN  <<SubSeq(s, 1, k - 1)>> \o Split(SubSeq(s, k + 1, Len(s)), c)

\* s.split(c, 1)
Split1(s, c) ==
    IF Positions(s, {c}) = {} THEN <<s>>
    ELSE LET k == Min(Positions(s, {c}))
         IN  <<SubSeq(s, 1, k - 1), SubSeq(s, k + 1, Len(s))>>

\* s.split(sep)[1] for a multi-character separator; None stands for IndexError
SplitSecond(s, sep) ==
    LET at == {k \in 1..Len(s) : StartsWithAt(s, k, sep)}
    IN  IF at = {} THEN None
        ELSE LET k == Min(at)
                 rest == SubSeq(s, k + Len(sep), Len(s))
                 more == {m \in 1..Len(rest) : StartsWithAt(rest, m, sep)}
             IN  IF more = {} THEN Some(rest)
                 ELSE Some(SubSeq(rest, 1, Min(more) - 1))

-----------------------------------------------------------------------------
(* urllib.parse, as used by src/app5.py *)

SchemeChars == Lower \cup Upper \cup Digit \cup {"+", "-", "."}

\* urlparse(url): scheme, netloc, path, query and fragment of the reference
urlparse(url) ==
    LET colon == Positions(url, {":"})
        c == IF colon = {} THEN 0 ELSE Min(colon)
        hasScheme == /\ c > 1
                     /\ url[1] \in Lower \cup Upper
                     /\ \A k \in 1..(c - 1) : url[k] \in SchemeChars
        scheme == IF hasScheme THEN SubSeq(url, 1, c - 1) ELSE <<>>
        r1 == IF hasScheme THEN Tail0(url, c) ELSE url
        hasNet == StartsWith(r1, <<"/","/">>)
        delims == {k \in Positions(r1, {"/", "?", "#"}) : k > 2}
        d == IF delims = {} THEN Len(r1) + 1 ELSE Min(delims)
        netloc == IF hasNet THEN SubSeq(r1, 3, d - 1) ELSE <<>>
        r2 == IF hasNet THEN SubSeq(r1, d, Len(r1)) ELSE r1
        f == Split1(r2, "#")
        q == Split1(f[1], "?")
    IN  [scheme |-> scheme, netloc |-> netloc, path |-> q[1],
         query |-> IF Len(q) = 2 THEN q[2] ELSE <<>>,
         fragment |-> IF Len(f) = 2 THEN f[2] ELSE <<>>]

\* ParseResult.hostname: the netloc without its port, None when empty
hostname(p) ==
    LET h == Split1(p.netloc, ":")[1]
    IN  IF h = <<>> THEN None ELSE Some(h)

\* parse_qs(query)[name]: the non-blank values of the parameter, in order;
\* the empty list stands for KeyError
parse_qs(query, name) ==
    LET pairs == Split(query, "&")
        nv(k) == Split1(pairs[k], "=")
        keep(k) == Len(nv(k)) = 2 /\ nv(k)[2] # <<>> /\ nv(k)[1] = name
    IN  [k \in 1..Cardinality({m \in DOMAIN pairs : keep(m)}) |->
           nv(CHOOSE m \in DOMAIN pairs :
                 keep(m) /\ Cardinality({n \in 1..m : keep(n)}) = k)[2]]

-----------------------------------------------------------------------------
(* re.search with a pattern (?:p1|p2|...)([class]{lo,hi}) *)

\* length of the greedy run of class characters of s from position k, at most hi
RunLen(s, k, class, hi) ==
    LET stop == {m \in k..Len(s) : s[m] \notin class} \cup {Len(s) + 1, k + hi}
    IN  Min(stop) - k

\* group(1) of the leftmost match, None when the pattern matches nowhere
ReSearch(s, prefixes, class, lo, hi) ==
    LET alt(k) == {a \in DOMAIN prefixes :
                     /\ StartsWithAt(s, k, prefixes[a])
                     /\ RunLen(s, k + Len(prefixes[a]), class, hi) >= lo}
        at == {k \in 1..Len(s) : alt(k) # {}}
    IN  IF at = {} THEN None
        ELSE LET k == Min(at)
                 g == k + Len(prefixes[Min(alt(k))])
             IN  Some(SubSeq(s, g, g + RunLen(s, g, class, hi) - 1))

-----------------------------------------------------------------------------
(* Identifier extraction *)

IdChars == Lower \cup Upper \cup Digit \cup {"_", "-"}

IdLen == 11

\* src/app5.py extract_video_id
extract_video_id(url) ==
    LET p == urlparse(url)
        h == hostname(p)
    IN  IF h \in {Some(<<"w","w","w",".","y","o","u","t","u","b","e",".","c","o","m">>), Some(<<"y","o","u","t","u","b","e",".","c","o","m">>)}
        THEN IF p.path = <<"/","w","a","t","c","h">>
             THEN LET v == parse_qs(p.query, <<"v">>)
                  IN  IF v = <<>> THEN None ELSE Some(v[1])
             ELSE IF StartsWith(p.path, <<"/","e","m","b","e","d","/">>) \/ StartsWith(p.path, <<"/","v","/">>)
                  THEN Some(Split(p.path, "/")[3])
                  ELSE None
        ELSE IF h = Some(<<"y","o","u","t","u",".","b","e">>) THEN Some(Tail0(p.path, 1))
        ELSE None

\* src/app4.py extract_video_id
extract_video_id_app4(url) ==
    LET class == Alphabet \ {"&", "?"}
        m1 == ReSearch(url, <<<<"v","=">>, <<"/","v","/">>, <<"y","o","u","t","u",".","b","e","/">>, <<"/","e","m","b","e","d","/">>>>, class, 1, Len(url))
        m2 == ReSearch(url, <<<<"w","a","t","c","h","?">>, <<"/","v","/">>, <<"y","o","u","t","u",".","b","e","/">>, <<"/","e","m","b","e","d","/">>>>, class, 1, Len(url))
    IN  IF m1 # None THEN m1 ELSE m2

\* src/youtube-transcript-summary-tool-v1.py extract_video_id
extract_video_id_v1(url) ==
    IF url = <<>> THEN None
    ELSE LET m1 == ReSearch(url, <<<<"v","=">>, <<"/">>>>, IdChars, IdLen, IdLen)
             m2 == ReSearch(url, <<<<"y","o","u","t","u",".","b","e","/">>>>, IdChars, IdLen, IdLen)
         IN  IF m1 # None THEN m1 ELSE m2

-----------------------------------------------------------------------------
(* Text joining *)

Whitespace == {" "}

\* str.strip()
RECURSIVE strip(_)
strip(s) ==
    IF s = <<>> THEN s
    ELSE IF s[1] \in Whitespace THEN strip(Tail(s))
    ELSE IF s[Len(s)] \in Whitespace THEN strip(SubSeq(s, 1, Len(s) - 1))
    ELSE s

\* sep.join(parts)
RECURSIVE join(_, _)
join(sep, parts) ==
    IF parts = <<>> THEN <<>>
    ELSE IF Len(parts) = 1 THEN parts[1]
    ELSE parts[1] \o sep \o join(sep, Tail(parts))

-----------------------------------------------------------------------------
(* Requests to the external services and their answers *)

Call(op, arg, n) == [op |-> op, arg |-> arg, n |-> n]

Answer(kind, segments, text, cause) ==
    [kind |-> kind, segments |-> segments, text |-> text, cause |-> cause]

\* an entry of the history of answers: the operation, its chunk index, the answer
Heard(op, n, o) == [op |-> op, n |-> n, answer |-> o]

\* str(e) of the exceptions the services raise
Causes == {"quota exceeded", "connection reset"}

MaxSegs == 2

SegTexts == {<<"h","e","l","l","o">>, <<" ","w","o","r","l","d"," ">>}

SegLists == UNION {[1..n -> SegTexts] : n \in 0..MaxSegs}

\* YouTubeTranscriptApi.get_transcript: a segment list or an exception
CaptionAnswers ==
    {Answer("ok", s, <<>>, "") : s \in SegLists}
    \cup {Answer("TranscriptsDisabled", <<>>, <<>>, ""),
          Answer("NoTranscriptFound", <<>>, <<>>, "")}
    \cup {Answer(k, <<>>, <<>>, c) : k \in {"ValueError", "Exception"}, c \in Causes}

\* yt_dlp download: the wav file is written, or an exception
DownloadAnswers ==
    {Answer("ok", <<>>, <<>>, "")} \cup {Answer("Exception", <<>>, <<>>, c) : c \in Causes}

\* AudioSegment.from_wav and chunk.export: done, or an exception
FileAnswers ==
    {Answer("ok", <<>>, <<>>, ""), Answer("Exception", <<>>, <<>>, "bad audio file")}

SpokenTexts == {<<"f","o","o">>, <<"b","a","r">>}

\* recognize_google: the text, UnknownValueError, RequestError or another exception
RecognizeAnswers ==
    {Answer("ok", <<>>, t, "") : t \in SpokenTexts}
    \cup {Answer("UnknownValueError", <<>>, <<>>, "")}
    \cup {Answer(k, <<>>, <<>>, "quota exceeded") : k \in {"RequestError", "Exception"}}

-----------------------------------------------------------------------------
(* Caption retrievers.  Each gives the requests it issues, the answers it  *)
(* consumes, the pair it returns and what it displays itself.              *)

Effect(c, h, r, p) == [calls |-> c, heard |-> h, result |-> r, printed |-> p]

Failed(msg) == <<None, Some(msg)>>

\* fetch_youtube_transcript with the bug of asking the service a second time
\* after a failure
fetch_youtube_transcript_retry(url, o) ==
    LET id == extract_video_id(url)
        ex == <<Call("extract_video_id", url, 0)>>
        c == ex \o <<Call("get_transcript", id[1], 0)>>
        h == <<Heard("get_transcript", 0, o)>>
    IN  IF ~Truthy(id)
        THEN Effect(ex, <<>>, Failed(<<"Invalid YouTube URL format">>), <<>>)
        ELSE IF o.kind = "ok"
        THEN Effect(c, h, <<Some(join(<<" ">>, [k \in DOMAIN o.segments |->
                                               strip(o.segments[k])])), None>>, <<>>)
        ELSE Effect(c \o <<Call("get_transcript", id[1], 0)>>, h \o h,
                    Failed(<<"An unexpected error occurred: ", o.cause>>), <<>>)

\* src/app5.py fetch_youtube_transcript
fetch_youtube_transcript(url, o) ==
    LET id == extract_video_id(url)
        ex == <<Call("extract_video_id", url, 0)>>
    IN  IF ~Truthy(id)
        THEN Effect(ex, <<>>, Failed(<<"Invalid YouTube URL format">>), <<>>)
        ELSE LET c == ex \o <<Call("get_transcript", id[1], 0)>>
                 r == CASE o.kind = "ok" ->
                             <<Some(join(<<" ">>, [k \in DOMAIN o.segments |->
                                                  strip(o.segments[k])])), None>>
                        [] o.kind = "TranscriptsDisabled" ->
                             Failed(<<"Transcripts are disabled for this video">>)
                        [] o.kind = "NoTranscriptFound" ->
                             Failed(<<"No transcript found for this video">>)
                        [] OTHER ->
                             Failed(<<"An unexpected error occurred: ", o.cause>>)
             IN  Effect(c, <<Heard("get_transcript", 0, o)>>, r, <<>>)

\* src/app4.py fetch_youtube_transcript: returns the transcript or None and
\* reports through st.error
fetch_youtube_transcript_app4(url, o) ==
    LET id == extract_video_id_app4(url)
        ex == <<Call("extract_video_id", url, 0)>>
    IN  IF ~Truthy(id)
        THEN Effect(ex, <<>>, <<None, None>>,
                    <<"Invalid YouTube URL format. Please check the URL.">>)
        ELSE LET c == ex \o <<Call("get_transcript", id[1], 0)>>
             IN  CASE o.kind = "ok" ->
                        Effect(c, <<Heard("get_transcript", 0, o)>>,
                               <<Some(join(<<" ">>, [k \in DOMAIN o.segments |->
                                                    strip(o.segments[k])])), None>>,
                               <<>>)
                   [] o.kind \in {"TranscriptsDisabled", "NoTranscriptFound"} ->
                        Effect(c, <<Heard("get_transcript", 0, o)>>, <<None, None>>,
                               <<"Transcript is not available for this video.">>)
                   [] o.kind = "ValueError" ->
                        Effect(c, <<Heard("get_transcript", 0, o)>>, <<None, None>>,
                               <<"Invalid video URL: ", o.cause>>)
                   [] OTHER ->
                        Effect(c, <<Heard("get_transcript", 0, o)>>, <<None, None>>,
                               <<"An unexpected error occurred: ", o.cause>>)

\* src/YoutubeVideoTranscriptExtraction.py fetch_youtube_transcript: returns
\* the transcript or None and prints the unexpected exceptions
fetch_youtube_transcript_yvte(url, o) ==
    LET id == SplitSecond(url, <<"v","=">>)
    IN  IF IsNone(id)
        THEN Effect(<<>>, <<>>, <<None, None>>,
                    <<"An error occurred: ", "list index out of range">>)
        ELSE LET c == <<Call("get_transcript", id[1], 0)>>
             IN  CASE o.kind = "ok" ->
                        Effect(c, <<Heard("get_transcript", 0, o)>>, <<Some(join(<<" ">>, o.segments)), None>>, <<>>)
                   [] o.kind \in {"TranscriptsDisabled", "NoTranscriptFound"} ->
                        Effect(c, <<Heard("get_transcript", 0, o)>>, <<None, None>>, <<>>)
                   [] OTHER ->
                        Effect(c, <<Heard("get_transcript", 0, o)>>, <<None, None>>,
                               <<"An error occurred: ", o.cause>>)

\* str(e) of the exception an answer of the captions service stands for
str_e(o) ==
    CASE o.kind = "TranscriptsDisabled" -> "Subtitles are disabled for this video"
      [] o.kind = "NoTranscriptFound" -> "No transcripts were found"
      [] OTHER -> o.cause

\* src/youtube-transcript-summary-tool-v1.py main: the text made of the
\* segments of get_transcript
transcript_text_v1(segments) == join(<<" ">>, segments)

\* src/youtube-transcript-summary-tool-v1.py main, from the extraction of the
\* identifier to the end of the transcript fetch, reporting through st.error
fetch_transcript_v1(url, o) ==
    LET id == extract_video_id_v1(url)
        ex == <<Call("extract_video_id", url, 0)>>
    IN  IF ~Truthy(id)
        THEN Effect(ex, <<>>, <<None, None>>,
                    <<"Invalid YouTube URL. Please check the URL and try again.">>)
        ELSE LET c == ex \o <<Call("get_transcript", id[1], 0)>>
             IN  IF o.kind = "ok"
                 THEN Effect(c, <<Heard("get_transcript", 0, o)>>,
                             <<Some(transcript_text_v1(o.segments)), None>>, <<>>)
                 ELSE Effect(c, <<Heard("get_transcript", 0, o)>>, <<None, None>>,
                             <<"Error fetching transcript: ", str_e(o)>>)

-----------------------------------------------------------------------------
(* Audio download and chunked transcription, src/app5.py *)

File(path, n) == [path |-> path, n |-> n]

\* the directory made by tempfile.TemporaryDirectory in main
temp_dir == <<"t","e","m","p","_","d","i","r","/">>

output_path == temp_dir \o <<"a","u","d","i","o">>

\* the file made by tempfile.NamedTemporaryFile for chunk k
ChunkFile(k) == File(<<"t","m","p","/","c","h","u","n","k",".","w","a","v">>, k)

InTempDir(f) == StartsWith(f.path, temp_dir)

\* what a failed download may leave behind in the directory
Leftovers == {{}, {File(output_path \o <<".","p","a","r","t">>, 0)}}

\* download_audio: the request, the answer, the returned pair and the files written
download_audio(url, path, o, leftover) ==
    [calls |-> <<Call("download", url, 0)>>,
     heard |-> <<Heard("download", 0, o)>>,
     result |-> IF o.kind = "ok" THEN <<Some(path \o <<".","w","a","v">>), None>>
                ELSE Failed(<<"Error downloading audio: ", o.cause>>),
     files |-> IF o.kind = "ok" THEN {File(path \o <<".","w","a","v">>, 0)} ELSE leftover]

chunk_length_ms == 30000

\* range(start, stop, step) as the sequence of its values
RECURSIVE range(_, _, _)
range(start, stop, step) ==
    IF start >= stop THEN <<>>
    ELSE <<start>> \o range(start + step, stop, step)

\* Slice with the bug of a fixed-length window that runs over the end
Slice_unclamped(len, a, b) == [start |-> a, end |-> b]

\* audio[a:b] of an AudioSegment of length len: both ends are clamped to len
Slice(len, a, b) ==
    [start |-> IF a < len THEN a ELSE len, end |-> IF b < len THEN b ELSE len]

\* the chunk list of transcribe_audio
Chunks(len) ==
    LET r == range(0, len, chunk_length_ms)
    IN  [k \in DOMAIN r |-> Slice(len, r[k], r[k] + chunk_length_ms)]

\* TempFileExit with the bug of delete=False: the file stays
TempFileExit_kept(files, f) == files

\* leaving the with block of a NamedTemporaryFile(delete=True)
TempFileExit(files, f) == files \ {f}

\* leaving the with block of the TemporaryDirectory
TempDirExit(files) == {f \in files : ~InTempDir(f)}

\* collect with the bug of keeping an empty text for a chunk not understood
collect_blank(texts, o) == Append(texts, IF o.kind = "ok" THEN o.text ELSE <<>>)

\* what one recognition answer does to the collected texts
collect(texts, o) == IF o.kind = "ok" THEN Append(texts, o.text) ELSE texts

\* the pair returned on an exception of recognize_google, None when the loop goes on
recognize_error(o) ==
    CASE o.kind = "RequestError" -> Some(Failed(<<"API Error: ", o.cause>>))
      [] o.kind = "Exception" -> Some(Failed(<<"Error transcribing audio: ", o.cause>>))
      [] OTHER -> None

\* the pair returned after the last chunk
transcribe_return(texts) == <<Some(join(<<" ">>, texts)), None>>

Shown(label, text, msg) == [label |-> label, text |-> text, msg |-> msg]

\* main: the transcript is printed when it is truthy, the error otherwise
main_print(label, r) ==
    IF Truthy(r[1]) THEN Shown(label, r[1][1], <<>>)
    ELSE Shown("Error:", <<>>, IF IsNone(r[2]) THEN <<"None">> ELSE r[2][1])

-----------------------------------------------------------------------------
(* The transcript analyzer, src/youtube-transcript-summary-tool-v1.py *)

\* initialize_session_state: the session state of a new session
initialize_session_state ==
    [transcript |-> None, analysis |-> None, video_id |-> None,
     analysis_type |-> None, model_name |-> "gemini-2.0-pro-02-05",
     url |-> <<>>, api_key |-> <<>>,
     has_data |-> FALSE, processing_complete |-> FALSE]

\* the answers of genai.configure and genai.list_models to setup_gemini
SetupAnswers == {"available", "unavailable", "Exception"}

\* the answers of model.generate_content
GenerateAnswers == {"ok", "Exception"}

\* setup_gemini: the model object, None when the model is not listed or the
\* service raises
setup_gemini(model_name, s) ==
    IF s = "available" THEN Some(model_name) ELSE None

\* what setup_gemini displays
setup_gemini_error(model_name, s) ==
    CASE s = "available" -> <<>>
      [] s = "unavailable" ->
            <<"Model '", model_name, "' not found. Available models are: ">>
      [] OTHER -> <<"Error setting up Gemini AI: ", s>>

\* text[:30000] in the prompt of analyze_with_gemini
prompt_limit == 30000

\* response.text of model.generate_content: a text that tells which model
\* was asked to carry out which task on which text
generate_content(model, text, task) ==
    <<model, task>> \o SubSeq(text, 1, Min({Len(text), prompt_limit}))

\* analyze_with_gemini: the text of the answer, "" without a model or when
\* the service raises
analyze_with_gemini(model, text, task, g) ==
    IF IsNone(model) THEN <<>>
    ELSE IF g = "ok" THEN generate_content(model[1], text, task)
    ELSE <<>>

\* what analyze_with_gemini displays
analyze_with_gemini_error(model, g) ==
    IF IsNone(model) THEN <<"Gemini AI model is not initialized.">>
    ELSE IF g = "ok" THEN <<>>
    ELSE <<"Gemini AI Analysis Failed: ", g>>

\* display_persistent_content: the transcript and the analysis rendered
\* under the heading of the analysis type, nothing without has_data
display_persistent_content(ss) ==
    IF ss.has_data
    THEN Some([transcript |-> ss.transcript, analysis |-> ss.analysis,
               analysis_type |-> ss.analysis_type])
    ELSE None

\* one script run: whether the button was clicked, the messages and the
\* persistent content rendered
Page(clicked, msgs, shown) == [clicked |-> clicked, msgs |-> msgs, shown |-> shown]

\* the inputs of an analysis request
Analysed(id, text, task, model) ==
    [video_id |-> id, transcript |-> text, analysis_type |-> task, model_name |-> model]

\* the session state and the page a script run leaves, with the inputs of
\* the analysis request it stored the answer of, if any
Outcome(ss, pg, asked) == [session_state |-> ss, page |-> pg, asked |-> asked]

\* main, lines 136-146: the widget values are written to the session state
\* on every script run, before the button is looked at
Widgets(ss, url, api_key, model_name) ==
    [ss EXCEPT !.url = url, !.api_key = api_key, !.model_name = model_name]

\* the longest list of segments the captions service answers the analyzer
MaxAnalyzerSegs == 1

\* the answers of the captions service to the analyzer
AnalyzerCaptionAnswers == {o \in CaptionAnswers : Len(o.segments) <= MaxAnalyzerSegs}

\* main: the outcomes of one script run with the widget values url, api_key,
\* model_name and analysis_type and the button 'Get Transcript and Analyze'
\* clicked or not, one outcome for each way the captions service, the model
\* set-up and the analysis can answer the calls the run makes.  A return
\* inside the button handler ends the run before display_persistent_content.
main_v1(ss0, url, api_key, model_name, analysis_type, clicked) ==
    LET ss == Widgets(ss0, url, api_key, model_name)
        id == extract_video_id_v1(url)
        fetch_new == id # ss.video_id \/ IsNone(ss.transcript)
        reanalyze == \/ Some(analysis_type) # ss.analysis_type
                     \/ IsNone(ss.analysis)
                     \/ model_name # ss.model_name
        done(x) == [x EXCEPT !.has_data = TRUE, !.processing_complete = TRUE]
        \* lines 248-266, with the model set up
        analyzed(ss1, model, g) ==
            LET analysis == analyze_with_gemini(model, ss1.transcript[1], analysis_type, g)
                ss2 == done([ss1 EXCEPT !.analysis = Some(analysis),
                                        !.analysis_type = Some(analysis_type),
                                        !.model_name = model_name])
            IN  Outcome(ss2,
                        Page(TRUE, analyze_with_gemini_error(model, g),
                             display_persistent_content(ss2)),
                        Some(Analysed(ss1.video_id, ss1.transcript,
                                      Some(analysis_type), model_name)))
        \* lines 239-266, with the transcript in ss1
        analyze(ss1) ==
            IF reanalyze \/ fetch_new
            THEN UNION {LET model == setup_gemini(model_name, s)
                        IN  IF IsNone(model)
                            THEN {Outcome(ss1, Page(TRUE, setup_gemini_error(model_name, s),
                                                    None), None)}
                            ELSE {analyzed(ss1, model, g) : g \in GenerateAnswers}
                        : s \in SetupAnswers}
            ELSE {Outcome(done(ss1),
                          Page(TRUE, <<>>, display_persistent_content(done(ss1))), None)}
        \* lines 218-234, with the answer o of the captions service
        fetched(o) ==
            IF o.kind # "ok"
            THEN {Outcome(ss, Page(TRUE, <<"Error fetching transcript: ", str_e(o)>>, None),
                          None)}
            ELSE analyze([ss EXCEPT !.transcript = Some(transcript_text_v1(o.segments)),
                                    !.video_id = id])
    IN  IF ~clicked
        THEN {Outcome(ss, Page(FALSE, <<>>, display_persistent_content(ss)), None)}
        ELSE IF url = <<>> \/ api_key = <<>>
        THEN {Outcome(ss, Page(TRUE, <<"Please enter both a YouTube URL and your Gemini API key">>,
                               None), None)}
        ELSE IF ~Truthy(id)
        THEN {Outcome(ss, Page(TRUE, <<"Invalid YouTube URL. Please check the URL and try again.">>,
                               None), None)}
        ELSE IF fetch_new
        THEN UNION {fetched(o) : o \in AnalyzerCaptionAnswers}
        ELSE analyze(ss)

-----------------------------------------------------------------------------
(* Inputs *)

Ids == {<<"a","b","c","1","2","3","4","5","6","7","8">>, <<"d","Q","w","4","-","9","W","g","_","c","Q">>}

Schemes == {<<"h","t","t","p","s",":","/","/">>, <<>>}

YoutubeHosts == {<<"w","w","w",".","y","o","u","t","u","b","e",".","c","o","m">>, <<"y","o","u","t","u","b","e",".","c","o","m">>}

ShortHost == <<"y","o","u","t","u",".","b","e">>

Hosts == YoutubeHosts \cup {ShortHost, <<"e","x","a","m","p","l","e",".","c","o","m">>}

MaxNameLen == 2

NameChars == {"t", "v"}

\* names of the query parameters that may accompany v
ParamNames == UNION {[1..n -> NameChars] : n \in 1..MaxNameLen} \ {<<"v">>}

ParamValues == {<<"1">>, <<"d","Q","w","4","-","9","W","g","_","c","Q">>}

Params(names) == {n \o <<"=">> \o x : n \in names, x \in ParamValues}

\* query strings carrying v=id, alone or with one other parameter on either side
VQueries(id, names) ==
    {<<"?","v","=">> \o id}
    \cup {<<"?","v","=">> \o id \o <<"&">> \o p : p \in Params(names)}
    \cup {<<"?">> \o p \o <<"&","v","=">> \o id : p \in Params(names)}

OtherQueries(names) == {<<>>} \cup {<<"?">> \o p : p \in Params(names)}

Paths(id) == {<<>>, <<"/","w","a","t","c","h">>, <<"/","e","m","b","e","d","/">> \o id, <<"/">> \o id,
              <<"/","e","m","b","e","d","/">> \o id \o <<"/","x">>, <<"/">> \o id \o <<"/","x">>}

UrlsWith(names) ==
    {s \o h \o p \o q : s \in Schemes, h \in Hosts,
                        p \in UNION {Paths(id) : id \in Ids},
                        q \in OtherQueries(names)
                              \cup UNION {VQueries(id, names) : id \in Ids}}
    \cup {<<>>, <<"n","o","t"," ","a"," ","u","r","l">>}

\* references given to the extractors and retrievers
Urls == UrlsWith(ParamNames)

\* references typed into main
MainUrls == UrlsWith({})

\* the three accepted shapes of a reference to the video id
WatchUrls(id) ==
    {<<"h","t","t","p","s",":","/","/">> \o h \o <<"/","w","a","t","c","h">> \o q : h \in YoutubeHosts, q \in VQueries(id, ParamNames)}

ShortUrls(id) ==
    {<<"h","t","t","p","s",":","/","/">> \o ShortHost \o <<"/">> \o id \o q : q \in OtherQueries(ParamNames)}

EmbedUrls(id) ==
    {<<"h","t","t","p","s",":","/","/">> \o h \o <<"/","e","m","b","e","d","/">> \o id \o q : h \in YoutubeHosts, q \in OtherQueries(ParamNames)}

ShapeUrls(id) == WatchUrls(id) \cup ShortUrls(id) \cup EmbedUrls(id)

MaxFullChunks == 2

TailMs == 5000

\* durations of the downloaded asset: whole chunks, with or without a shorter tail
Durations == {k * chunk_length_ms + r : k \in 0..MaxFullChunks, r \in {0, TailMs}}

MaxDur == 65000

-----------------------------------------------------------------------------
(* src/app5.py main, one action per step between two suspension points *)

Idle ==
    /\ calls = <<>> /\ heard = <<>> /\ fs = {}
    /\ result = <<None, None>> /\ printed = Shown("", <<>>, <<>>)
    /\ audio = 0 /\ chunks = <<>> /\ i = 0 /\ full_transcript = <<>>
    /\ variant = "" /\ video_id = None
    /\ session_state = initialize_session_state
    /\ page = Page(FALSE, <<>>, None)
    /\ analysed = None

Init ==
    /\ video_url \in MainUrls
    /\ choice \in {"1", "2", "3"}
    /\ pc = "main"
    /\ Idle

\* choice 1: fetch_youtube_transcript and the print of its result
FetchCaptions(o) ==
    /\ pc = "main" /\ choice = "1"
    /\ LET e == fetch_youtube_transcript(video_url, o)
       IN  /\ calls' = calls \o e.calls
           /\ heard' = heard \o e.heard
           /\ result' = e.result
           /\ printed' = main_print("Transcript:", e.result)
    /\ pc' = "done"
    /\ UNCHANGED ui
    /\ UNCHANGED <<video_url, choice, fs, audio, chunks, i, full_transcript,
                   variant, video_id>>

\* choice 2: the temporary directory is made and download_audio runs
DownloadAudio(o, d, leftover) ==
    /\ pc = "main" /\ choice = "2"
    /\ LET e == download_audio(video_url, output_path, o, leftover)
       IN  /\ calls' = calls \o e.calls
           /\ heard' = heard \o e.heard
           /\ result' = e.result
           /\ fs' = fs \cup {File(temp_dir, 0)} \cup e.files
           /\ audio' = IF o.kind = "ok" THEN d ELSE audio
           /\ pc' = IF IsNone(e.result[2]) THEN "transcribe" ELSE "exit"
    /\ UNCHANGED ui
    /\ UNCHANGED <<video_url, choice, printed, chunks, i, full_transcript,
                   variant, video_id>>

\* transcribe_audio up to the loop: the file is loaded and cut into chunks
TranscribeLoad(o) ==
    /\ pc = "transcribe"
    /\ IF o.kind = "ok"
       THEN /\ chunks' = Chunks(audio)
            /\ i' = 0
            /\ full_transcript' = <<>>
            /\ pc' = "loop"
            /\ UNCHANGED result
       ELSE /\ result' = Failed(<<"Error transcribing audio: ", o.cause>>)
            /\ pc' = "exit"
            /\ UNCHANGED <<chunks, i, full_transcript>>
    /\ calls' = Append(calls, Call("from_wav", result[1][1], 0))
    /\ heard' = Append(heard, Heard("from_wav", 0, o))
    /\ UNCHANGED ui
    /\ UNCHANGED <<video_url, choice, fs, printed, audio, variant, video_id>>

\* loop body up to the recognition request: chunk i is written to its temporary file
ChunkExport(o) ==
    /\ pc = "loop" /\ i < Len(chunks)
    /\ IF o.kind = "ok"
       THEN /\ fs' = fs \cup {ChunkFile(i)}
            /\ pc' = "recognize"
            /\ UNCHANGED result
       ELSE /\ fs' = TempFileExit(fs \cup {ChunkFile(i)}, ChunkFile(i))
            /\ result' = Failed(<<"Error transcribing audio: ", o.cause>>)
            /\ pc' = "exit"
    /\ calls' = Append(calls, Call("export", <<>>, i))
    /\ heard' = Append(heard, Heard("export", i, o))
    /\ UNCHANGED ui
    /\ UNCHANGED <<video_url, choice, printed, audio, chunks, i,
                   full_transcript, variant, video_id>>

\* recognize_google on chunk i, its handlers, and the end of the with block
Recognize(o) ==
    /\ pc = "recognize"
    /\ calls' = Append(calls, Call("recognize_google", <<>>, i))
    /\ heard' = Append(heard, Heard("recognize_google", i, o))
    /\ fs' = TempFileExit(fs, ChunkFile(i))
    /\ full_transcript' = collect(full_transcript, o)
    /\ IF IsNone(recognize_error(o))
       THEN /\ i' = i + 1
            /\ pc' = "loop"
            /\ UNCHANGED result
       ELSE /\ result' = recognize_error(o)[1]
            /\ pc' = "exit"
            /\ UNCHANGED i
    /\ UNCHANGED ui
    /\ UNCHANGED <<video_url, choice, printed, audio, chunks, variant, video_id>>

\* after the last chunk the collected texts are joined and returned
TranscribeReturn ==
    /\ pc = "loop" /\ i = Len(chunks)
    /\ result' = transcribe_return(full_transcript)
    /\ pc' = "exit"
    /\ UNCHANGED ui
    /\ UNCHANGED <<video_url, choice, calls, heard, fs, printed, audio, chunks, i,
                   full_transcript, variant, video_id>>

\* main prints the outcome and leaves the with block of the temporary directory
MainExit ==
    /\ pc = "exit"
    /\ printed' = main_print("Transcription:", result)
    /\ fs' = TempDirExit(fs)
    /\ pc' = "done"
    /\ UNCHANGED ui
    /\ UNCHANGED <<video_url, choice, calls, heard, result, audio, chunks, i,
                   full_transcript, variant, video_id>>

\* any other choice
InvalidChoice ==
    /\ pc = "main" /\ choice \notin {"1", "2"}
    /\ printed' = Shown("Invalid choice. Please select 1 or 2.", <<>>, <<>>)
    /\ pc' = "done"
    /\ UNCHANGED ui
    /\ UNCHANGED <<video_url, choice, calls, heard, fs, result, audio, chunks, i,
                   full_transcript, variant, video_id>>

Next ==
    \/ \E o \in CaptionAnswers : FetchCaptions(o)
    \/ \E o \in DownloadAnswers, d \in Durations, l \in Leftovers : DownloadAudio(o, d, l)
    \/ \E o \in FileAnswers : TranscribeLoad(o)
    \/ \E o \in FileAnswers : ChunkExport(o)
    \/ \E o \in RecognizeAnswers : Recognize(o)
    \/ TranscribeReturn
    \/ MainExit
    \/ InvalidChoice

Spec == Init /\ [][Next]_vars

-----------------------------------------------------------------------------
(* The extractors and caption retrievers of all variants, each called once *)

InitVariants ==
    /\ video_url \in Urls
    /\ choice = ""
    /\ pc = "call"
    /\ Idle

Extracted(v, id) ==
    /\ pc = "call"
    /\ variant' = v
    /\ video_id' = id
    /\ pc' = "extracted"
    /\ UNCHANGED ui
    /\ UNCHANGED <<video_url, choice, calls, heard, fs, result, printed, audio,
                   chunks, i, full_transcript>>

ExtractApp5 == Extracted("app5", extract_video_id(video_url))

ExtractApp4 == Extracted("app4", extract_video_id_app4(video_url))

ExtractV1 == Extracted("v1", extract_video_id_v1(video_url))

Fetched(v, e) ==
    /\ pc = "call"
    /\ variant' = v
    /\ calls' = e.calls
    /\ heard' = e.heard
    /\ result' = e.result
    /\ printed' = Shown("", <<>>, e.printed)
    /\ pc' = "fetched"
    /\ UNCHANGED ui
    /\ UNCHANGED <<video_url, choice, fs, audio, chunks, i, full_transcript, video_id>>

FetchApp5(o) == Fetched("app5", fetch_youtube_transcript(video_url, o))

FetchApp4(o) == Fetched("app4", fetch_youtube_transcript_app4(video_url, o))

FetchYvte(o) == Fetched("yvte", fetch_youtube_transcript_yvte(video_url, o))

FetchV1(o) == Fetched("v1", fetch_transcript_v1(video_url, o))

NextVariants ==
    \/ ExtractApp5
    \/ ExtractApp4
    \/ ExtractV1
    \/ \E o \in CaptionAnswers : FetchApp5(o)
    \/ \E o \in CaptionAnswers : FetchApp4(o)
    \/ \E o \in CaptionAnswers : FetchYvte(o)
    \/ \E o \in CaptionAnswers : FetchV1(o)

SpecVariants == InitVariants /\ [][NextVariants]_vars

-----------------------------------------------------------------------------
(* transcribe_audio cutting an asset of any duration up to MaxDur *)

InitChunks ==
    /\ video_url = <<"h","t","t","p","s",":","/","/","y","o","u","t","u",".","b","e","/","a","b","c","1","2","3","4","5","6","7","8">>
    /\ choice = "2"
    /\ pc = "transcribe"
    /\ audio \in 0..MaxDur
    /\ calls = <<Call("download", video_url, 0)>>
    /\ heard = <<Heard("download", 0, Answer("ok", <<>>, <<>>, ""))>>
    /\ fs = {File(temp_dir, 0), File(output_path \o <<".","w","a","v">>, 0)}
    /\ result = <<Some(output_path \o <<".","w","a","v">>), None>>
    /\ printed = Shown("", <<>>, <<>>)
    /\ chunks = <<>> /\ i = 0 /\ full_transcript = <<>>
    /\ variant = "" /\ video_id = None
    /\ session_state = initialize_session_state
    /\ page = Page(FALSE, <<>>, None)
    /\ analysed = None

NextChunks == \E o \in FileAnswers : TranscribeLoad(o)

SpecChunks == InitChunks /\ [][NextChunks]_vars

-----------------------------------------------------------------------------
(* The transcript analyzer, one action per script run of main *)

\* the references typed in the URL field: none, two videos, no video
AnalyzerUrls ==
    {<<>>, <<"h","t","t","p","s",":","/","/","w","w","w",".","y","o","u","t","u","b","e",".","c","o","m","/","w","a","t","c","h","?","v","=","a","b","c","1","2","3","4","5","6","7","8">>, <<"h","t","t","p","s",":","/","/","y","o","u","t","u",".","b","e","/","d","Q","w","4","-","9","W","g","_","c","Q">>,
     <<"n","o","p","e">>}

\* the keys typed in the API key field
ApiKeys == {<<>>, <<"k">>}

\* two of the models of the selection box
ModelNames == {"gemini-pro", "gemini-2.0-pro-02-05"}

\* two of the analysis types of the selection box
AnalysisTypes == {"summarize", "identify main topics"}

InitAnalyzer ==
    /\ video_url = <<>>
    /\ choice = ""
    /\ pc = "ui"
    /\ Idle

\* the script run has ended
Ran(out) ==
    /\ session_state' = out.session_state
    /\ page' = out.page
    /\ analysed' = IF IsNone(out.asked) THEN analysed ELSE out.asked
    /\ UNCHANGED <<video_url, choice, pc, calls, heard, fs, result, printed, audio,
                   chunks, i, full_transcript, variant, video_id>>

\* a script run caused by a widget other than 'Get Transcript and Analyze'
Rerun ==
    /\ pc = "ui"
    /\ \E url \in AnalyzerUrls, api_key \in ApiKeys, model_name \in ModelNames,
          analysis_type \in AnalysisTypes :
            \E out \in main_v1(session_state, url, api_key, model_name, analysis_type,
                               FALSE) : Ran(out)

\* a script run caused by a click of 'Get Transcript and Analyze'.  The
\* widgets keep their values between runs; a click with other values than
\* those of the run before stands for a run caused by the widget changed,
\* followed by the click.
Click ==
    /\ pc = "ui"
    /\ \E url \in AnalyzerUrls, api_key \in ApiKeys, model_name \in ModelNames,
          analysis_type \in AnalysisTypes :
            \E out \in main_v1(session_state, url, api_key, model_name, analysis_type,
                               TRUE) : Ran(out)

NextAnalyzer ==
    \/ Rerun
    \/ Click

SpecAnalyzer == InitAnalyzer /\ [][NextAnalyzer]_vars

-----------------------------------------------------------------------------
(* Properties of src/app5.py main, checked under Spec *)

Range(f) == {f[k] : k \in DOMAIN f}

ExternalOps == {"get_transcript", "download", "recognize_google"}

\* the requests sent to the three external services, in order
External(cs) == SelectSeq(cs, LAMBDA c : c.op \in ExternalOps)

Started == pc # "main" /\ choice \in {"1", "2"}

\* C1: under both strategies the acquisition first runs the identifier
\* extraction, and when it yields None the result is the invalid-reference
\* failure and no captions, download or recognition request is ever issued.
C1_InvalidReferenceShortCircuits ==
    Started =>
        /\ calls # <<>> /\ calls[1].op = "extract_video_id"
        /\ IsNone(extract_video_id(video_url)) =>
              /\ External(calls) = <<>>
              /\ pc = "done" => result = Failed(<<"Invalid YouTube URL format">>)

\* C1, the half the code keeps: under the captions strategy an absent
\* identifier ends in the invalid-reference failure with no external request.
C1_CaptionsShortCircuits ==
    (choice = "1" /\ pc = "done" /\ ~Truthy(extract_video_id(video_url))) =>
        /\ calls = <<Call("extract_video_id", video_url, 0)>>
        /\ result = Failed(<<"Invalid YouTube URL format">>)

\* positions in the history where recognize_google raised RequestError
RequestErrors ==
    {k \in DOMAIN heard : /\ heard[k].op = "recognize_google"
                          /\ heard[k].answer.kind = "RequestError"}

\* C2: once the recognition of chunk k fails with a request error, no chunk
\* after k is requested, transcribe_audio returns an error and no transcript,
\* and that error carries the index k together with the cause.
C2_RequestErrorAbortsAndNamesChunk ==
    \A k \in RequestErrors :
        /\ \A m \in DOMAIN calls : calls[m].op = "recognize_google" => calls[m].n <= heard[k].n
        /\ pc \in {"exit", "done"}
        /\ IsNone(result[1]) /\ ~IsNone(result[2])
        /\ heard[k].answer.cause \in Range(result[2][1])
        /\ ToString(heard[k].n) \in Range(result[2][1])

\* C2, the part the code keeps: the abort, the error result and the cause.
C2_RequestErrorAborts ==
    \A k \in RequestErrors :
        /\ k = Len(heard)
        /\ \A m \in DOMAIN calls : calls[m].op = "recognize_google" => calls[m].n <= heard[k].n
        /\ pc \in {"exit", "done"}
        /\ result = Failed(<<"API Error: ", heard[k].answer.cause>>)

\* a function of the pipeline has returned the pair held in result
Returned ==
    \/ choice = "1" /\ pc = "done"
    \/ choice = "2" /\ pc \in {"transcribe", "loop", "recognize", "exit", "done"}

\* C3: every returned pair has exactly one populated component, a transcript
\* being populated when it is a non-empty string and an error when not None.
C3_ExactlyOnePopulated ==
    Returned => (Truthy(result[1]) <=> IsNone(result[2]))

\* the texts recognize_google returned, in chunk order
UnderstoodTexts ==
    LET ok == SelectSeq(heard, LAMBDA h : h.op = "recognize_google" /\ h.answer.kind = "ok")
    IN  [k \in DOMAIN ok |-> ok[k].answer.text]

\* the chunk indices requested from recognize_google, in order
RecognizedChunks ==
    LET rc == SelectSeq(calls, LAMBDA c : c.op = "recognize_google")
    IN  [k \in DOMAIN rc |-> rc[k].n]

\* texts separated by exactly one space, built from the left
RECURSIVE SpaceSeparated(_)
SpaceSeparated(texts) ==
    IF texts = <<>> THEN <<>>
    ELSE IF Len(texts) = 1 THEN texts[1]
    ELSE SpaceSeparated(SubSeq(texts, 1, Len(texts) - 1)) \o <<" ">> \o texts[Len(texts)]

NoSeparatorArtifact(t) ==
    /\ t # <<>> => t[1] # " " /\ t[Len(t)] # " "
    /\ \A k \in 1..(Len(t) - 1) : ~(t[k] = " " /\ t[k + 1] = " ")

\* every call of the run succeeded or reported that nothing was understood
NoFailure == \A k \in DOMAIN heard : heard[k].answer.kind \in {"ok", "UnknownValueError"}

\* C4: when no chunk fails, every chunk is requested in index order, and
\* transcribe_audio returns the understood texts in that order, separated by
\* exactly one space, with nothing left behind by the chunks not understood.
C4_UnderstoodTextsJoined ==
    (choice = "2" /\ pc \in {"exit", "done"} /\ NoFailure) =>
        /\ RecognizedChunks = [k \in 1..Len(chunks) |-> k - 1]
        /\ result = <<Some(SpaceSeparated(UnderstoodTexts)), None>>
        /\ NoSeparatorArtifact(result[1][1])

\* C4 witness: ("foo", not understood, "bar") was returned as "foo bar"
C4_Witness ==
    /\ choice = "2" /\ pc = "done" /\ NoFailure
    /\ UnderstoodTexts = <<<<"f","o","o">>, <<"b","a","r">>>>
    /\ \E k \in DOMAIN heard : /\ heard[k].answer.kind = "UnknownValueError"
                                /\ heard[k].n = 1
    /\ result = <<Some(<<"f","o","o"," ","b","a","r">>), None>>

ChunkFiles == {f \in fs : ~InTempDir(f)}

\* C5: a chunk's temporary file exists only while that chunk is processed,
\* whatever its outcome, and once the audio strategy has returned no file of
\* the acquisition is left on disk.
C5_NoTemporaryFileOutlivesItsScope ==
    /\ pc = "recognize" => ChunkFiles = {ChunkFile(i)}
    /\ pc # "recognize" => ChunkFiles = {}
    /\ pc = "done" => fs = {}

\* C5 witness: the run was aborted by a request error on a later chunk, the
\* asset had been downloaded, and the disk is clean after the return
C5_Witness ==
    /\ choice = "2" /\ pc = "done" /\ fs = {}
    /\ \E k \in RequestErrors : heard[k].n >= 1

\* C5 witness of the other paths: a failed download that left a partial file
C5_WitnessDownloadFailed ==
    /\ choice = "2" /\ pc = "done" /\ fs = {}
    /\ heard[1].answer.kind = "Exception"

\* C8: under the captions strategy with a valid identifier the requests to
\* the external services are exactly one get_transcript, whatever it answers:
\* no retry, no download, no recognition.
C8_CaptionsCalledExactlyOnce ==
    (choice = "1" /\ Truthy(extract_video_id(video_url))) =>
        /\ pc = "main" => External(calls) = <<>>
        /\ pc # "main" =>
              /\ pc = "done"
              /\ External(calls) =
                     <<Call("get_transcript", extract_video_id(video_url)[1], 0)>>
              /\ Len(heard) = 1

\* C8 witness: the captions service failed and nothing else was requested
C8_Witness ==
    /\ choice = "1" /\ pc = "done"
    /\ Len(heard) = 1 /\ heard[1].answer.kind = "Exception"
    /\ Len(External(calls)) = 1

-----------------------------------------------------------------------------
(* Properties of the extractors and retrievers, checked under SpecVariants *)

\* a structurally valid identifier: IdLen characters of the identifier class
ValidId(s) == Len(s) = IdLen /\ \A k \in DOMAIN s : s[k] \in IdChars

\* C6: extract_video_id of src/app5.py and of src/app4.py returns None or a
\* structurally valid identifier, for every reference.
C6_AbsentOrStructurallyValid ==
    (pc = "extracted" /\ variant \in {"app5", "app4"}) =>
        IsNone(video_id) \/ ValidId(video_id[1])

\* C7: for a reference of one of the three accepted shapes built from an
\* identifier, alone or with another query parameter, every extract_video_id
\* returns exactly that identifier.
C7_ShapesYieldTheIdentifier ==
    pc = "extracted" =>
        \A id \in Ids : video_url \in ShapeUrls(id) => video_id = Some(id)

\* C7 for src/app5.py alone, which keeps it
C7_App5ShapesYieldTheIdentifier ==
    (pc = "extracted" /\ variant = "app5") =>
        \A id \in Ids : video_url \in ShapeUrls(id) => video_id = Some(id)

\* the class of the failure taxonomy an answer of the captions service falls in
FailureClass(o) ==
    CASE o.kind = "TranscriptsDisabled" -> "CaptionsDisabled"
      [] o.kind = "NoTranscriptFound" -> "NoCaptionsFound"
      [] o.kind = "ok" -> "none"
      [] OTHER -> "TransportOrUnknown"

\* the retriever of a variant
FetchOf(v, url, o) ==
    CASE v = "app5" -> fetch_youtube_transcript(url, o)
      [] v = "app4" -> fetch_youtube_transcript_app4(url, o)
      [] v = "v1" -> fetch_transcript_v1(url, o)
      [] OTHER -> fetch_youtube_transcript_yvte(url, o)

\* C9: a failure of the captions service gives no transcript but an error
\* that no answer of another failure class would have given: the three
\* classes stay distinct in what every retriever returns and reports.
C9_FailureTaxonomyPreserved ==
    (pc = "fetched" /\ heard # <<>> /\ FailureClass(heard[1].answer) # "none") =>
        /\ IsNone(result[1])
        /\ ~IsNone(result[2]) \/ printed.msg # <<>>
        /\ \A o \in CaptionAnswers :
              FailureClass(o) \notin {"none", FailureClass(heard[1].answer)} =>
                 LET e == FetchOf(variant, video_url, o)
                 IN  <<e.result, e.printed>> # <<result, printed.msg>>

\* C9 for src/app5.py alone, which keeps it
C9_App5FailureTaxonomyPreserved ==
    (pc = "fetched" /\ variant = "app5") => C9_FailureTaxonomyPreserved

\* s without its leading and trailing whitespace: the longest piece of s
\* that neither starts nor ends with whitespace
Trimmed(s) ==
    LET ink == {k \in DOMAIN s : s[k] \notin Whitespace}
    IN  IF ink = {} THEN <<>>
        ELSE SubSeq(s, Min(ink), CHOOSE k \in ink : \A m \in ink : m <= k)

\* the answer of the captions service to the retrieval that has returned
Fetched_ok ==
    /\ pc = "fetched" /\ heard # <<>> /\ heard[1].answer.kind = "ok"

\* C11: a successful retrieval returns the segment texts in the order of the
\* service, each trimmed of its outer whitespace, with exactly one space
\* between consecutive segments; the same segments give the same transcript.
C11_TrimmedSegmentsJoinedInOrder ==
    (Fetched_ok /\ variant \in {"app5", "yvte", "v1"}) =>
        LET segs == heard[1].answer.segments
        IN  /\ result = <<Some(SpaceSeparated([k \in DOMAIN segs |-> Trimmed(segs[k])])),
                          None>>
            /\ FetchOf(variant, video_url, heard[1].answer).result = result

\* C11 for src/app5.py and src/app4.py, which trim and keep it
C11_StrippingVariantsKeepIt ==
    (Fetched_ok /\ variant \in {"app5", "app4"}) =>
        LET segs == heard[1].answer.segments
        IN  result = <<Some(SpaceSeparated([k \in DOMAIN segs |-> Trimmed(segs[k])])),
                       None>>

-----------------------------------------------------------------------------
(* Properties of the chunk list, checked under SpecChunks *)

ChunkLength(c) == c.end - c.start

\* C10: an asset of d ms is cut into ceil(d / 30000) chunks that follow one
\* another from 0 to d without gap or overlap; all are 30000 ms long but the
\* last, which is d mod 30000 ms long, or 30000 ms when that is 0.
C10_ChunksPartitionTheAsset ==
    pc = "loop" =>
        LET n == Len(chunks)
        IN  /\ n = (audio + chunk_length_ms - 1) \div chunk_length_ms
            /\ n > 0 => chunks[1].start = 0 /\ chunks[n].end = audio
            /\ \A k \in 1..(n - 1) :
                  /\ chunks[k + 1].start = chunks[k].end
                  /\ ChunkLength(chunks[k]) = chunk_length_ms
            /\ n > 0 => ChunkLength(chunks[n]) =
                            IF audio % chunk_length_ms = 0 THEN chunk_length_ms
                            ELSE audio % chunk_length_ms

\* C10 witness: a 65 s asset was cut into chunks of 30 s, 30 s and 5 s
C10_Witness ==
    /\ pc = "loop" /\ audio = 65000
    /\ [k \in DOMAIN chunks |-> ChunkLength(chunks[k])] = <<30000, 30000, 5000>>

-----------------------------------------------------------------------------
(* Properties of the transcript analyzer, checked under SpecAnalyzer *)

\* the analyses a request with the inputs a can have stored: the text of the
\* answer, or "" when the analysis failed
StoredAnswers(a) ==
    {Some(<<>>), Some(generate_content(a.model_name, a.transcript[1], a.analysis_type[1]))}

\* the history variable follows the stored analysis: there is none before
\* the first analysis, and afterwards the stored analysis answers the request
\* recorded
AnalysedIsHistory ==
    /\ IsNone(analysed) <=> IsNone(session_state.analysis)
    /\ ~IsNone(analysed) => session_state.analysis \in StoredAnswers(analysed[1])

\* the stored analysis was requested for the stored video, its stored
\* transcript and the stored analysis type
AnalysisOfStored ==
    /\ ~IsNone(analysed)
    /\ analysed[1].video_id = session_state.video_id
    /\ analysed[1].transcript = session_state.transcript
    /\ analysed[1].analysis_type = session_state.analysis_type

\* this step is a click of 'Get Transcript and Analyze' whose run reached
\* its end, in a session that holds data
LaterClickCompleted ==
    /\ session_state.has_data
    /\ page'.clicked /\ ~IsNone(page'.shown)

\* after this step the stored analysis answers a request made with the
\* values now stored, the model selected included
Recomputed ==
    /\ analysed' = Some(Analysed(session_state'.video_id, session_state'.transcript,
                                 session_state'.analysis_type, session_state'.model_name))
    /\ session_state'.analysis \in StoredAnswers(analysed'[1])

\* C12: after a completed run, a later click for the same video and the same
\* analysis type with another model selected than the one the stored analysis
\* was made with stores an analysis requested from the newly selected model.
C12_ModelChangeRecomputes ==
    [][(/\ LaterClickCompleted
        /\ AnalysisOfStored
        /\ session_state'.video_id = session_state.video_id
        /\ session_state'.analysis_type = session_state.analysis_type
        /\ session_state'.model_name # analysed[1].model_name)
       => Recomputed]_vars

\* C12 for the other two keys, which the code keeps: a later click for
\* another video or another analysis type stores a new analysis
C12_VideoOrTypeChangeRecomputes ==
    [][(/\ LaterClickCompleted
        /\ \/ session_state'.video_id # session_state.video_id
           \/ session_state'.analysis_type # session_state.analysis_type)
       => Recomputed]_vars

\* C13: whenever has_data is true the stored analysis was computed from the
\* stored transcript of the stored video under the stored analysis type, and
\* a page never shows an analysis next to a transcript it was not made from.
C13_AnalysisMatchesTranscript ==
    /\ session_state.has_data => AnalysisOfStored
    /\ ~IsNone(page.shown) =>
          /\ ~IsNone(analysed)
          /\ page.shown[1].transcript = analysed[1].transcript
          /\ page.shown[1].analysis_type = analysed[1].analysis_type
          /\ page.shown[1].analysis \in StoredAnswers(analysed[1])

====
